---- MODULE Spec2Model ----
(***************************************************************************)
(* Model of the handler registry, the dispatch paths and the generated     *)
(* action handlers of the runar macros crate:                               *)
(*   - src/src/action_registry.rs : the inventory of ActionItem,            *)
(*     find_action_handler and dispatch_request;                            *)
(*   - src/src/lib.rs             : the code generated by #[service]        *)
(*     (handle_request, new) and by #[action] (handle_<fn>,                 *)
(*     register_<fn>_action);                                               *)
(*   - src/src/action.rs          : the handler closure generated by        *)
(*     action_macro (generate_register_action_method and                    *)
(*     generate_parameter_extractions);                                     *)
(*   - src/src/service.rs         : collect_action_methods, the generated   *)
(*     init and the service metadata (extract_service_attributes);          *)
(*   - src/src/vmap.rs            : the Number branch of vmap_extract!;     *)
(*   - src/src/publish.rs         : the wrapper generated by #[publish];    *)
(*   - src/src/subscribe.rs       : the callbacks generated by #[subscribe];*)
(*   - src/src/subscription_registry.rs : register_all_subscriptions;       *)
(*   - src/src/registry.rs, src/src/utils.rs : extract_parameter.           *)
(* Rendered messages are sequences of tokens: format!("Unknown action: {}", *)
(* a) is <<"Unknown action: ", a>>, so "the message contains the name" is   *)
(* membership of the name among the tokens.                                 *)
(***************************************************************************)
EXTENDS Integers, Sequences, FiniteSets, TLC

VARIABLES
    registry,         \* the inventory of ActionItem, in iteration order
    lastReg,          \* the most recent submission and its result
    action_registry,  \* the action_registry field of each service instance
    lastDispatch,     \* the most recent dispatch_request / handle_request
    request,          \* the input handed to a generated handler or extractor
    lastCall,         \* the completed run of a generated handler
    lastExtract,      \* the completed run of an extraction function
    phase,            \* "load": static constructors run; "run": main has begun
    lastService,      \* the completed expansion or init of a #[service]
    lastEvent,        \* the completed run of generated publish / subscribe code
    inflight          \* the handler invocations in progress, each with its frame

vars == <<registry, lastReg, action_registry, lastDispatch, request, lastCall, lastExtract,
          phase, lastService, lastEvent, inflight>>

----------------------------------------------------------------------------
(* Bounds *)

\* most ActionItem entries ever submitted to the inventory
MaxItems == 3

\* most items in the impl block of a service
MaxMethods == 3

\* the largest number of collected subscription handlers
MaxSubs == 3

----------------------------------------------------------------------------
(* Small input sets *)

\* std::any::TypeId of the service types
TypeIds == {"Calc", "Other"}

\* operation names of requests and registrations
OpNames == {"add", "subtract"}

\* the distinct handler functions that may be submitted
HandlerFns == {"fn1", "fn2"}

\* sequence helpers
Range(s) == {s[i] : i \in DOMAIN s}

Contains(msg, token) == token \in Range(msg)

InsertAt(s, i, e) == SubSeq(s, 1, i - 1) \o <<e>> \o SubSeq(s, i, Len(s))

----------------------------------------------------------------------------
(* action_registry.rs: the process-wide inventory of ActionItem *)

ActionItem == [name : OpNames, service_type_id : TypeIds, handler_fn : HandlerFns]

Key(item) == <<item.service_type_id, item.name>>

\* get_action_handlers: every submitted item, in the inventory's iteration order
get_action_handlers == registry

\* find_action_handler: the first item, in iteration order, whose name matches
MatchingPositions(operation_name) ==
    {i \in DOMAIN get_action_handlers : get_action_handlers[i].name = operation_name}

find_action_handler(operation_name) ==
    IF MatchingPositions(operation_name) = {}
    THEN <<>>
    ELSE LET first == CHOOSE i \in MatchingPositions(operation_name) :
                         \A j \in MatchingPositions(operation_name) : i <= j
         IN  <<get_action_handlers[first]>>

----------------------------------------------------------------------------
(* Payload values *)

\* names a declared parameter or a map key may have
ParamNames == {"a", "b"}

\* Option<T>: None is <<>>, Some(x) is <<x>>
None == <<>>

Some(x) == <<x>>

\* runar_common::types::ValueType, the payload of lib.rs's ServiceRequest.
\* A value is [k, v, m]: its variant, its scalar content, and for a Map its
\* entries, one per possible key, Absent for a key the map does not hold.
StringValues == {"s1", "s2"}

Absent == [k |-> "absent", v |-> "-"]

ValueTypeEntries ==
    {[k |-> "String", v |-> s] : s \in StringValues} \cup {[k |-> "Number", v |-> "7"]}

NoEntries == [p \in ParamNames |-> Absent]

ValueTypeScalars == {[k |-> e.k, v |-> e.v, m |-> NoEntries] : e \in ValueTypeEntries}

ValueTypeMaps ==
    {[k |-> "Map", v |-> "-", m |-> f] : f \in [ParamNames -> ValueTypeEntries \cup {Absent}]}

ValueTypeOthers == {[k |-> "Null", v |-> "-", m |-> NoEntries],
                    [k |-> "Array", v |-> "-", m |-> NoEntries]}

ValueTypes == ValueTypeScalars \cup ValueTypeMaps \cup ValueTypeOthers

\* HashMap::get(key) is Some
HasKey(m, key) == key \in DOMAIN m /\ m[key].k # "absent"

Keys(m) == {key \in DOMAIN m : HasKey(m, key)}

\* request.data : Option<ValueType>
RequestData == {None} \cup {Some(x) : x \in ValueTypes}

\* declared parameter and return types of action_macro handlers
DeclTypes == {"f64", "i32", "i64", "String", "bool", "MyData"}

ValsOf(t) ==
    CASE t = "f64"    -> {"2.0", "3.5"}
      [] t = "i32"    -> {"7"}
      [] t = "i64"    -> {"9"}
      [] t = "String" -> {"s1"}
      [] t = "bool"   -> {"true"}
      [] OTHER        -> {"MyData{1}"}

\* extract_return_type_info: is_primitive
IsPrimitive(t) == t \in {"i32", "i64", "u32", "u64", "f32", "f64", "bool", "String", "&str", "()"}

\* runar_common::types::ArcValueType: a type-erased value [k, t, v, m]. A map
\* is a HashMap<String, V> for one value type V (field t), V = "ArcValueType"
\* for a map of erased values; its entries are [k, t, v].
AbsentArc == [k |-> "absent", t |-> "-", v |-> "-"]

NoArcEntries == [p \in ParamNames |-> AbsentArc]

ArcEntry(t, v) == [k |-> IF IsPrimitive(t) THEN "prim" ELSE "struct", t |-> t, v |-> v]

ArcEntriesOf(t) == {ArcEntry(t, v) : v \in ValsOf(t)}

ArcEntries == UNION {ArcEntriesOf(t) : t \in DeclTypes}

\* variant: the value is stored as its text, under the type String
new_primitive_text(t, v) == [k |-> "prim", t |-> "String", v |-> v, m |-> NoArcEntries]

\* ArcValueType::new_primitive(v) and ArcValueType::from_struct(v)
new_primitive(t, v) == [k |-> "prim", t |-> t, v |-> v, m |-> NoArcEntries]

from_struct(t, v) == [k |-> "struct", t |-> t, v |-> v, m |-> NoArcEntries]

\* ArcValueType::new_map(map)
new_map(vt, map) == [k |-> "map", t |-> vt, v |-> "-", m |-> map]

ArcPrimitives == {[k |-> e.k, t |-> e.t, v |-> e.v, m |-> NoArcEntries] : e \in ArcEntries}

ArcTypedMaps ==
    UNION {{new_map(t, f) : f \in [ParamNames -> ArcEntriesOf(t) \cup {AbsentArc}]}
           : t \in DeclTypes}

ArcErasedMaps ==
    {new_map("ArcValueType", f) : f \in [ParamNames -> ArcEntries \cup {AbsentArc}]}

ArcValues == ArcPrimitives \cup ArcTypedMaps \cup ArcErasedMaps
                \cup {[k |-> "null", t |-> "-", v |-> "-", m |-> NoArcEntries],
                      [k |-> "list", t |-> "-", v |-> "-", m |-> NoArcEntries]}

\* params_opt : Option<ArcValueType>
ParamsOpt == {None} \cup {Some(x) : x \in ArcValues}

\* ArcValueType::as_map_ref::<String, V>(): Ok only for a map whose value type is V
as_map_ref_ok(value, V) == value.k = "map" /\ value.t = V

\* ArcValueType::as_type::<T>(): Ok only for a value of type T
as_type_ok(value, T) == value.k \in {"prim", "struct"} /\ value.t = T

\* value.as_type::<T>(): the stored value when it is of type T, else an error
as_type(value, T) ==
    IF as_type_ok(value, T) THEN [ok |-> TRUE, value |-> value.v]
    ELSE [ok |-> FALSE, value |-> "-"]

\* the rendering of the error of a failed as_map_ref or as_type
ValueErr == "type mismatch"

\* outcomes of the user's method: Ok(result) or Err(e)
MethodOk(v) == [ok |-> TRUE, v |-> v, e |-> "-"]

MethodErr == [ok |-> FALSE, v |-> "-", e |-> "Division by zero"]

----------------------------------------------------------------------------
(* lib.rs: the handler generated by #[action] *)

\* declared parameter lists: distinct names, in declaration order
ParamLists == {<<>>, <<"a">>, <<"b">>, <<"a", "b">>, <<"b", "a">>}

\* an #[action] method of lib.rs: its action name and its parameters (every
\* parameter is extracted as a String)
LibHandlers == [action_name : OpNames, params : ParamLists]

\* result of an extraction: the arguments, the number of declared parameters
\* examined, the number of map lookups by key, and on failure the message
ExtractOk(args, examined, lookups) ==
    [ok |-> TRUE, args |-> args, examined |-> examined, lookups |-> lookups,
     message |-> <<>>]

ExtractErr(args, examined, lookups, message) ==
    [ok |-> FALSE, args |-> args, examined |-> examined, lookups |-> lookups,
     message |-> message]

\* the per-parameter match on params.get(name), one parameter after the
\* other, returning at the first that is missing or not a String
RECURSIVE LibExtractFrom(_, _, _, _)
LibExtractFrom(m, params, i, args) ==
    IF i > Len(params)
    THEN ExtractOk(args, Len(params), Len(params))
    ELSE IF HasKey(m, params[i]) /\ m[params[i]].k = "String"
    THEN LibExtractFrom(m, params, i + 1, Append(args, m[params[i]].v))
    ELSE ExtractErr(args, i, i, <<"Missing or invalid '", params[i], "' parameter">>)

\* param_extraction of the generated handle_<fn>
LibExtraction(params, data) ==
    IF Len(params) = 1
    THEN IF data # None /\ data[1].k = "String"
         THEN ExtractOk(<<data[1].v>>, 1, 0)
         ELSE IF data # None /\ data[1].k = "Map"
         THEN LibExtractFrom(data[1].m, params, 1, <<>>)
         ELSE ExtractErr(<<>>, 1, 0, <<"This action only accepts a direct string parameter">>)
    ELSE IF Len(params) > 1
    THEN IF data # None /\ data[1].k = "Map"
         THEN LibExtractFrom(data[1].m, params, 1, <<>>)
         ELSE ExtractErr(<<>>, 0, 0,
                  <<"Parameters must be provided as a map with appropriate keys">>)
    ELSE ExtractOk(<<>>, 0, 0)

\* self.<fn>(args).await: one invocation of the user's method
LibCallMethod(outcome) == [calls |-> 1, result |-> outcome]

\* the generated handle_<fn>(&self, request)
handle_fn(h, data, outcome) ==
    LET ext == LibExtraction(h.params, data) IN
    IF ~ext.ok
    THEN [macro |-> "action", handler |-> h, payload |-> data, ext |-> ext,
          calls |-> 0, outcome |-> outcome, returned |-> "Ok",
          resp |-> [status |-> "Error", message |-> Some(ext.message), data |-> None]]
    ELSE LET call == LibCallMethod(outcome) IN
         [macro |-> "action", handler |-> h, payload |-> data, ext |-> ext,
          calls |-> call.calls, outcome |-> outcome, returned |-> "Ok",
          resp |-> IF call.result.ok
                   THEN [status |-> "Success",
                         message |-> Some(<<"Operation ", h.action_name,
                                            " executed successfully">>),
                         data |-> Some([k |-> "String", v |-> call.result.v,
                                       m |-> NoEntries])]
                   ELSE [status |-> "Error",
                         message |-> Some(<<"Error executing operation ", h.action_name,
                                            ": ", call.result.e>>),
                         data |-> None]]

\* results a String-returning method may produce
LibOutcomes == {MethodOk(v) : v \in StringValues} \cup {MethodErr}

----------------------------------------------------------------------------
(* action.rs: the handler closure generated by action_macro *)

\* the declared parameters (ident, type), without self and ctx
ArcParamLists ==
    UNION {{[i \in DOMAIN names |-> [name |-> names[i], ty |-> T[i]]]
            : T \in [DOMAIN names -> DeclTypes]} : names \in ParamLists}

\* return types of the methods
RetTypes == {"f64", "i32", "MyData"}

ActionHandlers == [action_name : OpNames, params : ArcParamLists, ret : RetTypes]

\* generate_parameter_extractions: the branch chosen from the parameter's
\* type string
ExtractClass(ty) ==
    IF ty \in {"f64", "f32"} THEN "f64"
    ELSE IF ty = "i32" THEN "i32"
    ELSE IF ty = "i64" THEN "i64"
    ELSE IF ty \in {"String", "&str"} THEN "String"
    ELSE IF ty = "bool" THEN "bool"
    ELSE "complex"

MissingParameter(name) == <<"Missing parameter ", name>>

\* variant: a bare value of the declared type is taken as the parameter
ArcExtractOneDirect(pv, name, ty) ==
    IF as_type_ok(pv, ty)
    THEN [ok |-> TRUE, value |-> pv.v, looked |-> 0, message |-> <<>>]
    ELSE [ok |-> FALSE, value |-> "-", looked |-> 0,
          message |-> <<"Failed to parse parameters as map: ", ValueErr>>]

\* the extraction generated for one parameter, applied to params_value
ArcExtractOne(pv, name, ty) ==
    LET cls == ExtractClass(ty) IN
    IF cls # "complex"
    THEN IF as_map_ref_ok(pv, cls)
         THEN IF HasKey(pv.m, name)
              THEN [ok |-> TRUE, value |-> pv.m[name].v, looked |-> 1, message |-> <<>>]
              ELSE [ok |-> FALSE, value |-> "-", looked |-> 1,
                    message |-> MissingParameter(name)]
         ELSE [ok |-> FALSE, value |-> "-", looked |-> 0,
               message |-> <<"Failed to parse parameters as map with ", cls,
                             " values: ", ValueErr>>]
    ELSE IF as_map_ref_ok(pv, "ArcValueType")
         THEN IF HasKey(pv.m, name)
              THEN IF as_type_ok(pv.m[name], ty)
                   THEN [ok |-> TRUE, value |-> pv.m[name].v, looked |-> 1,
                         message |-> <<>>]
                   ELSE [ok |-> FALSE, value |-> "-", looked |-> 1,
                         message |-> <<"Failed to parse parameter ", name, ": ", ValueErr>>]
              ELSE [ok |-> FALSE, value |-> "-", looked |-> 1,
                    message |-> MissingParameter(name)]
         ELSE [ok |-> FALSE, value |-> "-", looked |-> 0,
               message |-> <<"Failed to parse parameters as map: ", ValueErr>>]

\* the extractions run in declaration order; each failure returns at once
RECURSIVE ArcExtractFrom(_, _, _, _, _)
ArcExtractFrom(pv, params, i, args, lookups) ==
    IF i > Len(params)
    THEN ExtractOk(args, Len(params), lookups)
    ELSE LET one == ArcExtractOne(pv, params[i].name, params[i].ty) IN
         IF one.ok
         THEN ArcExtractFrom(pv, params, i + 1, Append(args, one.value), lookups + one.looked)
         ELSE ExtractErr(args, i, lookups + one.looked, one.message)

\* variant: an absent payload is refused whether or not parameters are declared
ArcExtractionStrict(params, params_opt) ==
    IF params_opt = None
    THEN ExtractErr(<<>>, 0, 0, <<"No parameters provided">>)
    ELSE ArcExtractFrom(params_opt[1], params, 1, <<>>, 0)

\* the match on params_opt, then the extractions
ArcExtraction(params, params_opt) ==
    IF params_opt = None /\ params # <<>>
    THEN ExtractErr(<<>>, 0, 0, <<"No parameters provided">>)
    ELSE LET params_value == IF params_opt = None
                             THEN new_map("ArcValueType", NoArcEntries)
                             ELSE params_opt[1]
         IN  ArcExtractFrom(params_value, params, 1, <<>>, 0)

\* variant: the response carries a default value in place of the result
ResultValueDefault(ret, result) ==
    IF IsPrimitive(ret) THEN new_primitive(ret, "0") ELSE from_struct(ret, "default")

\* result_handling: the value wrapped for the response
ResultValue(ret, result) ==
    IF IsPrimitive(ret) THEN new_primitive(ret, result) ELSE from_struct(ret, result)

\* variant: the call is made again when the method returned Err
ArcCallMethodRetry(outcome) == [calls |-> IF outcome.ok THEN 1 ELSE 2, result |-> outcome]

\* inner_self.<fn>(args, &ctx).await: one invocation of the user's method
ArcCallMethod(outcome) == [calls |-> 1, result |-> outcome]

\* variant: the Err arm answers without the error text
MethodErrResponseBare(err) == [status |-> 500, data |-> None, error |-> None]

\* result_handling, the Err(err) arm: status 500, no data, err.to_string()
MethodErrResponse(err) == [status |-> 500, data |-> None, error |-> Some(<<err>>)]

\* variant: a failed extraction answers as a failed method does
ExtractionErrResponseAs500(message) ==
    [status |-> 500, data |-> None, error |-> Some(message)]

\* the early returns of the closure and of the parameter extractions: status
\* 400, no data, the message
ExtractionErrResponse(message) == [status |-> 400, data |-> None, error |-> Some(message)]

\* the closure registered by register_action_<fn>
ActionHandler(h, params_opt, outcome) ==
    LET ext == ArcExtraction(h.params, params_opt) IN
    IF ~ext.ok
    THEN [macro |-> "action_macro", handler |-> h, payload |-> params_opt, ext |-> ext,
          calls |-> 0, outcome |-> outcome, returned |-> "Ok",
          resp |-> ExtractionErrResponse(ext.message)]
    ELSE LET call == ArcCallMethod(outcome) IN
         [macro |-> "action_macro", handler |-> h, payload |-> params_opt, ext |-> ext,
          calls |-> call.calls, outcome |-> outcome, returned |-> "Ok",
          resp |-> IF call.result.ok
                   THEN [status |-> 200, data |-> Some(ResultValue(h.ret, call.result.v)),
                         error |-> None]
                   ELSE MethodErrResponse(call.result.e)]

ArcOutcomes(h) == {MethodOk(v) : v \in ValsOf(h.ret)} \cup {MethodErr}

----------------------------------------------------------------------------
(* utils.rs: extract_param *)

\* target types of a conversion T::try_from(ValueType)
ExtractTargets == {"String", "Number"}

\* T::try_from(value): Ok only for the matching variant
try_from_ok(value, T) == value.k = T

extract_param(params, name, T) ==
    IF params.k = "Map"
    THEN IF HasKey(params.m, name)
         THEN IF try_from_ok(params.m[name], T)
              THEN [fn |-> "extract_param", ok |-> TRUE, value |-> params.m[name].v,
                    message |-> <<>>]
              ELSE [fn |-> "extract_param", ok |-> FALSE, value |-> "-",
                    message |-> <<"Failed to convert parameter '", name, "': ", ValueErr>>]
         ELSE [fn |-> "extract_param", ok |-> FALSE, value |-> "-",
               message |-> <<"Parameter '", name, "' not found">>]
    ELSE [fn |-> "extract_param", ok |-> FALSE, value |-> "-",
          message |-> <<"Parameters are not a map">>]

----------------------------------------------------------------------------
(* utils.rs, registry.rs: extract_parameter *)

\* T of extract_parameter::<T, _>: a scalar or a map / struct type. A
\* serde_json::Value is written as a ValueType, its Object as "Map".
ParameterTargets == {"String", "Number", "Map"}

\* the error_msg the caller supplies
ErrorMsgs == {<<"Missing required parameter">>}

\* a map entry as a value of its own
AsValue(e) == [k |-> e.k, v |-> e.v, m |-> NoEntries]

\* the rendering of a serde_json error
SerdeErr == "invalid type"

\* variant: the looked-up value is moved out of the caller's map
BorrowedTaking(params, name) ==
    IF params.k = "Map" THEN [params EXCEPT !.m[name] = Absent] ELSE params

\* params is a shared reference (params: &ValueType, params: &serde_json::Value):
\* the function converts value.clone() or params.clone(); the caller's payload
\* after the call
Borrowed(params, name) == params

\* utils.rs extract_parameter::<T, S>(params, name, error_msg)
utils_extract_parameter(params, name, T, error_msg) ==
    LET res ==
          IF params.k = "Map"
          THEN IF HasKey(params.m, name)
               THEN IF try_from_ok(params.m[name], T)
                    THEN [ok |-> TRUE, value |-> AsValue(params.m[name]), message |-> <<>>]
                    ELSE [ok |-> FALSE, value |-> AsValue(Absent),
                          message |-> <<"Error converting parameter '", name, "': ", ValueErr>>]
               ELSE [ok |-> FALSE, value |-> AsValue(Absent), message |-> error_msg]
          ELSE IF try_from_ok(params, T)
               THEN [ok |-> TRUE, value |-> params, message |-> <<>>]
               ELSE [ok |-> FALSE, value |-> AsValue(Absent),
                     message |-> <<"Error converting direct parameter: ", ValueErr>>]
    IN  [fn |-> "utils::extract_parameter", ok |-> res.ok, value |-> res.value,
         message |-> res.message, after |-> Borrowed(params, name)]

\* variant: a value under the key that does not parse falls back to the
\* conversion of the whole payload
extract_parameter_fallback(params, name, T, error_msg) ==
    LET res ==
          IF params.k = "Map" /\ HasKey(params.m, name) /\ try_from_ok(params.m[name], T)
          THEN [ok |-> TRUE, value |-> AsValue(params.m[name]), message |-> <<>>]
          ELSE IF try_from_ok(params, T)
               THEN [ok |-> TRUE, value |-> params, message |-> <<>>]
               ELSE [ok |-> FALSE, value |-> AsValue(Absent), message |-> error_msg]
    IN  [fn |-> "registry::extract_parameter", ok |-> res.ok, value |-> res.value,
         message |-> res.message, after |-> Borrowed(params, name)]

\* registry.rs extract_parameter::<T, S>(params, name, error_msg)
extract_parameter(params, name, T, error_msg) ==
    LET res ==
          IF params.k = "Map" /\ HasKey(params.m, name)
          THEN IF try_from_ok(params.m[name], T)
               THEN [ok |-> TRUE, value |-> AsValue(params.m[name]), message |-> <<>>]
               ELSE [ok |-> FALSE, value |-> AsValue(Absent),
                     message |-> <<"Failed to parse parameter '", name, "': ", SerdeErr>>]
          ELSE IF try_from_ok(params, T)
               THEN [ok |-> TRUE, value |-> params, message |-> <<>>]
               ELSE [ok |-> FALSE, value |-> AsValue(Absent), message |-> error_msg]
    IN  [fn |-> "registry::extract_parameter", ok |-> res.ok, value |-> res.value,
         message |-> res.message, after |-> Borrowed(params, name)]

----------------------------------------------------------------------------
(* vmap.rs: vmap_extract!(value, key => default), the Number branch in full *)

\* Numbers are written in base 2^16: an f64 is [nan, neg, mag, frac], its
\* magnitude mag four limbs (most significant first) before the point and
\* frac tenths after it; an integer is the same record with frac = 0.
Limb == 65536

ZeroMag == <<0, 0, 0, 0>>

F64(neg, mag, frac) == [nan |-> FALSE, neg |-> neg, mag |-> mag, frac |-> frac]

NaN == [nan |-> TRUE, neg |-> FALSE, mag |-> ZeroMag, frac |-> 0]

Zero == F64(FALSE, ZeroMag, 0)

\* i64::MAX = 2^63 - 1 and |i64::MIN| = 2^63; i32::MAX and |i32::MIN|
I64MaxMag == <<32767, 65535, 65535, 65535>>

I64MinMag == <<32768, 0, 0, 0>>

I32MaxMag == <<0, 0, 32767, 65535>>

I32MinMag == <<0, 0, 32768, 0>>

MagLess(a, b) == \E i \in 1..4 : a[i] < b[i] /\ \A j \in 1..(i - 1) : a[j] = b[j]

\* the numbers tried: 0, 7, 3.5, -3.5, 2^31, -2^31, -(2^31 + 1), 2^32 + 5,
\* 2^63, -(2^63 + 2048) and NaN
F64Samples ==
    {Zero, F64(FALSE, <<0, 0, 0, 7>>, 0), F64(FALSE, <<0, 0, 0, 3>>, 5),
     F64(TRUE, <<0, 0, 0, 3>>, 5), F64(FALSE, I32MinMag, 0), F64(TRUE, I32MinMag, 0),
     F64(TRUE, <<0, 0, 32768, 1>>, 0), F64(FALSE, <<0, 1, 0, 5>>, 0),
     F64(FALSE, I64MinMag, 0), F64(TRUE, <<32768, 0, 0, 2048>>, 0), NaN}

\* n as i64, from f64: the fraction is cut off, a value beyond the range
\* becomes the nearest bound, NaN becomes 0
F64AsI64(n) ==
    IF n.nan THEN Zero
    ELSE IF ~n.neg /\ MagLess(I64MaxMag, n.mag) THEN F64(FALSE, I64MaxMag, 0)
    ELSE IF n.neg /\ MagLess(I64MinMag, n.mag) THEN F64(TRUE, I64MinMag, 0)
    ELSE F64(n.neg /\ n.mag # ZeroMag, n.mag, 0)

\* n as u64, from f64: as above, a negative value becomes 0
F64AsU64(n) ==
    IF n.nan \/ n.neg THEN Zero ELSE F64(FALSE, n.mag, 0)

\* two's complement negation of a 32-bit pattern <<high limb, low limb>>
Neg32(bits) ==
    IF bits[2] = 0 THEN <<(Limb - bits[1]) % Limb, 0>>
    ELSE <<Limb - 1 - bits[1], Limb - bits[2]>>

\* x as i32, from i64: the low 32 bits of x, read as a signed number
I64AsI32(x) ==
    LET low == <<x.mag[3], x.mag[4]>>
        bits == IF x.neg THEN Neg32(low) ELSE low
    IN  IF bits[1] >= Limb \div 2
        THEN F64(TRUE, <<0, 0>> \o Neg32(bits), 0)
        ELSE F64(FALSE, <<0, 0>> \o bits, 0)

\* x as u32, from u64: the low 32 bits of x
U64AsU32(x) == F64(FALSE, <<0, 0, x.mag[3], x.mag[4]>>, 0)

\* types of the default value, as std::any::type_name_of_val names them
DefaultTypes == {"i32", "i64", "u32", "u64", "f64"}

\* the match on the type name of the default: the casts of the Number branch
NumberAs(n, T) ==
    CASE T = "i64" -> F64AsI64(n)
      [] T = "i32" -> I64AsI32(F64AsI64(n))
      [] T = "u64" -> F64AsU64(n)
      [] T = "u32" -> U64AsU32(F64AsU64(n))
      [] T \in {"f32", "f64"} -> n
      [] OTHER -> Zero

\* the payloads: [k, v, m] as above, with v a number
AbsentNum == [k |-> "absent", v |-> Zero]

NumEntries ==
    {[k |-> "Number", v |-> n] : n \in F64Samples}
    \cup {[k |-> "String", v |-> Zero], [k |-> "Bool", v |-> Zero], [k |-> "Null", v |-> Zero]}

NoNumEntries == [p \in ParamNames |-> AbsentNum]

NumValues ==
    {[k |-> "Map", v |-> Zero, m |-> [NoNumEntries EXCEPT ![p] = e]]
        : p \in ParamNames, e \in NumEntries \cup {AbsentNum}}
    \cup {[k |-> e.k, v |-> e.v, m |-> NoNumEntries] : e \in NumEntries}

\* vmap_extract!(value, key => default) with a default 0 of type T: a plain
\* value of type T comes back on every path, there is no error result
vmap_extract(value, key, T) ==
    LET answer(found, from, v) ==
            [fn |-> "vmap_extract", T |-> T, found |-> found, ok |-> TRUE, from |-> from,
             value |-> v, error |-> "-"]
    IN  IF value = None THEN answer(None, "default", Zero)
        ELSE IF value[1].k # "Map" THEN answer(None, "default", Zero)
        ELSE IF ~HasKey(value[1].m, key) THEN answer(None, "default", Zero)
        ELSE LET e == value[1].m[key] IN
             IF e.k = "String"
             THEN IF T \in {"std::string::String", "&str"}
                  THEN answer(None, "value", e.v) ELSE answer(None, "default", Zero)
             ELSE IF e.k = "Number"
             THEN IF T \in {"i32", "i64", "u32", "u64", "f32", "f64"}
                  THEN answer(Some(e.v), "value", NumberAs(e.v, T))
                  ELSE answer(Some(e.v), "default", Zero)
             ELSE IF e.k = "Bool"
             THEN IF T = "bool" THEN answer(None, "value", e.v)
                  ELSE answer(None, "default", Zero)
             ELSE answer(None, "default", Zero)

----------------------------------------------------------------------------
(* service.rs: the methods collected from the impl block and the generated init *)

\* an item of the impl block: a method with its attributes, or another item
ImplItemKinds ==
    {[isFn |-> FALSE, attrs |-> {}]}
    \cup {[isFn |-> TRUE, attrs |-> A] : A \in SUBSET {"action", "subscribe"}}

\* impl blocks; the method at position i has the identifier i
ImplBlocks == UNION {[1..n -> ImplItemKinds] : n \in 0..MaxMethods}

\* variant: a method carrying both attributes is collected under each
MethodEntryBoth(item, ident) ==
    IF ~item.isFn THEN <<>>
    ELSE (IF "action" \in item.attrs
          THEN <<[ident |-> ident, method_type |-> "action"]>> ELSE <<>>)
         \o (IF "subscribe" \in item.attrs
             THEN <<[ident |-> ident, method_type |-> "subscribe"]>> ELSE <<>>)

\* the closure of filter_map: Some((ident, "action" | "subscribe", ..)) or None
MethodEntry(item, ident) ==
    IF ~item.isFn THEN <<>>
    ELSE IF "action" \in item.attrs
    THEN <<[ident |-> ident, method_type |-> "action"]>>
    ELSE IF "subscribe" \in item.attrs
    THEN <<[ident |-> ident, method_type |-> "subscribe"]>>
    ELSE <<>>

RECURSIVE CollectFrom(_, _)
CollectFrom(items, i) ==
    IF i > Len(items) THEN <<>>
    ELSE MethodEntry(items[i], i) \o CollectFrom(items, i + 1)

collect_action_methods(items) == CollectFrom(items, 1)

\* the statements self.register_action_<m>(..).await? and
\* self.register_subscription_<m>(..).await?, in the order of the methods
method_registrations(all_methods) ==
    [j \in DOMAIN all_methods |->
        [call |-> IF all_methods[j].method_type = "action"
                  THEN "register_action_" ELSE "register_subscription_",
         ident |-> all_methods[j].ident]]

\* init(&self, context): the registrations one after the other, each left
\* with ? on Err, then register_types. failAt says which of these calls
\* returns Err: none (0), the failAt-th registration, or register_types
ServiceInit(items, failAt) ==
    LET regs == method_registrations(collect_action_methods(items))
        n == Len(regs)
    IN  [op |-> "init", items |-> items, failAt |-> failAt,
         called |-> IF failAt \in 1..n THEN SubSeq(regs, 1, failAt) ELSE regs,
         registered |-> IF failAt \in 1..n THEN SubSeq(regs, 1, failAt - 1) ELSE regs,
         types_registered |-> failAt = 0,
         result |-> IF failAt = 0 THEN "Ok" ELSE "Err"]

----------------------------------------------------------------------------
(* lib.rs and service.rs: the metadata of a #[service] *)

\* A text is a sequence of characters. The texts a user writes are spelled
\* character by character; a text the macro itself supplies (a default) is
\* one element.
UpperToLower == ("M" :> "m") @@ ("S" :> "s") @@ ("T" :> "t")

to_lowercase(s) == [i \in DOMAIN s |-> IF s[i] \in DOMAIN UpperToLower
                                      THEN UpperToLower[s[i]] ELSE s[i]]

\* lib.rs to_snake_case: an underscore before every uppercase character but
\* the first, and each character in lowercase
RECURSIVE SnakeFrom(_, _)
SnakeFrom(s, i) ==
    IF i > Len(s) THEN <<>>
    ELSE (IF i > 1 /\ s[i] \in DOMAIN UpperToLower THEN <<"_">> ELSE <<>>)
         \o to_lowercase(<<s[i]>>) \o SnakeFrom(s, i + 1)

to_snake_case(camel_case) == SnakeFrom(camel_case, 1)

\* str::split(sep): the pieces between the separators, empty pieces included
RECURSIVE Split(_, _)
Split(s, sep) ==
    IF \A i \in DOMAIN s : s[i] # sep THEN <<s>>
    ELSE LET i == CHOOSE j \in DOMAIN s :
                     s[j] = sep /\ \A k \in 1..(j - 1) : s[k] # sep
         IN  <<SubSeq(s, 1, i - 1)>> \o Split(SubSeq(s, i + 1, Len(s)), sep)

RECURSIVE Trim(_)
Trim(s) ==
    IF s # <<>> /\ s[1] = " " THEN Trim(Tail(s))
    ELSE IF s # <<>> /\ s[Len(s)] = " " THEN Trim(SubSeq(s, 1, Len(s) - 1))
    ELSE s

\* value.starts_with('"') && value.ends_with('"')
Quoted(value) == value # <<>> /\ value[1] = "\"" /\ value[Len(value)] = "\""

\* str::replace(" ", "_")
ReplaceSpaces(s) == [i \in DOMAIN s |-> IF s[i] = " " THEN "_" ELSE s[i]]

\* HashMap::get(key) after the inserts of pairs, a later insert replacing an
\* earlier one
Get(pairs, key) ==
    LET hits == {i \in DOMAIN pairs : pairs[i].key = key} IN
    IF hits = {} THEN None
    ELSE Some(pairs[CHOOSE i \in hits : \A j \in hits : j <= i].value)

\* the loop of parse_attributes (lib.rs, keepUnquoted) and of
\* extract_service_attributes (service.rs, ~keepUnquoted) from the i-th piece
\* on. value[1..value.len() - 1] of a value that is a single quote character
\* is a slice from 1 to 0: the expansion panics
RECURSIVE ParseFrom(_, _, _, _)
ParseFrom(pieces, i, pairs, keepUnquoted) ==
    IF i > Len(pieces) THEN [panicked |-> FALSE, pairs |-> pairs]
    ELSE LET parts == Split(pieces[i], "=") IN
         IF Len(parts) # 2 THEN ParseFrom(pieces, i + 1, pairs, keepUnquoted)
         ELSE LET key == Trim(parts[1])
                  value == Trim(parts[2])
              IN  IF Quoted(value)
                  THEN IF Len(value) = 1 THEN [panicked |-> TRUE, pairs |-> pairs]
                       ELSE ParseFrom(pieces, i + 1,
                                      Append(pairs, [key |-> key,
                                                     value |-> SubSeq(value, 2, Len(value) - 1)]),
                                      keepUnquoted)
                  ELSE IF keepUnquoted
                  THEN ParseFrom(pieces, i + 1, Append(pairs, [key |-> key, value |-> value]),
                                 keepUnquoted)
                  ELSE ParseFrom(pieces, i + 1, pairs, keepUnquoted)

\* lib.rs parse_attributes(attr_string)
parse_attributes(attr_string) == ParseFrom(Split(attr_string, ","), 1, <<>>, TRUE)

\* service.rs extract_service_attributes(attr)
extract_service_attributes(attr_str) ==
    IF attr_str = <<>> THEN [panicked |-> FALSE, pairs |-> <<>>]
    ELSE ParseFrom(Split(attr_str, ","), 1, <<>>, FALSE)

\* the attribute keys, spelled out
KeyText ==
    [name |-> <<"n", "a", "m", "e">>, path |-> <<"p", "a", "t", "h">>,
     description |-> <<"d", "e", "s", "c", "r", "i", "p", "t", "i", "o", "n">>,
     version |-> <<"v", "e", "r", "s", "i", "o", "n">>]

AttrKeys == <<"name", "path", "description", "version">>

\* attr.to_string(): the tokens key = "literal" of the declared attributes,
\* joined by commas
RECURSIVE AttrStringFrom(_, _, _)
AttrStringFrom(decl, i, first) ==
    IF i > Len(AttrKeys) THEN <<>>
    ELSE LET k == AttrKeys[i] IN
         IF decl[k] = None THEN AttrStringFrom(decl, i + 1, first)
         ELSE (IF first THEN <<>> ELSE <<",", " ">>)
              \o KeyText[k] \o <<" ", "=", " ", "\"">> \o decl[k][1] \o <<"\"">>
              \o AttrStringFrom(decl, i + 1, FALSE)

AttrString(decl) == AttrStringFrom(decl, 1, TRUE)

\* the result of an expansion that panicked: no service is built
NoExpansion(flavor, struct_name, decl) ==
    [op |-> "service", flavor |-> flavor, struct_name |-> struct_name, decl |-> decl,
     panicked |-> TRUE, name |-> <<>>, path |-> <<>>, description |-> <<>>,
     version |-> <<>>]

\* lib.rs #[service]: what name(), path(), description() and version() of
\* the generated AbstractService impl return
LibService(struct_name, decl) ==
    LET attr_meta == parse_attributes(AttrString(decl)) IN
    IF attr_meta.panicked THEN NoExpansion("lib", struct_name, decl)
    ELSE LET get(key) == Get(attr_meta.pairs, KeyText[key])
             service_name == IF get("name") # None THEN get("name")[1]
                             ELSE to_snake_case(struct_name)
         IN  [op |-> "service", flavor |-> "lib", struct_name |-> struct_name,
              decl |-> decl, panicked |-> FALSE,
              name |-> service_name,
              path |-> IF get("path") # None THEN get("path")[1] ELSE service_name,
              description |-> IF get("description") # None THEN get("description")[1]
                              ELSE struct_name \o <<" service">>,
              version |-> IF get("version") # None THEN get("version")[1]
                          ELSE <<"0.1.0">>]

\* service.rs service_macro: the same four accessors as
\* generate_abstract_service_impl generates them
MacroService(struct_name, decl) ==
    LET service_attrs == extract_service_attributes(AttrString(decl)) IN
    IF service_attrs.panicked THEN NoExpansion("service_macro", struct_name, decl)
    ELSE LET get(key) == Get(service_attrs.pairs, KeyText[key]) IN
         [op |-> "service", flavor |-> "service_macro", struct_name |-> struct_name,
          decl |-> decl, panicked |-> FALSE,
          name |-> IF get("name") # None THEN get("name")[1] ELSE struct_name,
          path |-> IF get("path") # None THEN get("path")[1]
                   ELSE IF get("name") # None
                   THEN ReplaceSpaces(to_lowercase(get("name")[1]))
                   ELSE to_lowercase(struct_name),
          description |-> IF get("description") # None THEN get("description")[1]
                          ELSE <<"Service generated by service macro: ">> \o struct_name,
          version |-> IF get("version") # None THEN get("version")[1] ELSE <<"1.0.0">>]

\* struct names and attribute values tried
StructNames == {<<"S", "v", "c">>, <<"M", "y", "S", "v", "c">>}

NameTexts == {<<"s", "v", "c">>, <<"M", "y", " ", "s">>}

PathTexts == {<<"p">>, <<"/", "p">>}

DescriptionTexts == {<<"d">>, <<"d", ",", "e">>, <<"d", "=", "e">>, <<",", "e">>}

VersionTexts == {<<"2", ".", "0">>}

Opt(S) == {None} \cup {Some(x) : x \in S}

ServiceDecls ==
    [name : Opt(NameTexts), path : Opt(PathTexts), description : Opt(DescriptionTexts),
     version : Opt(VersionTexts)]

----------------------------------------------------------------------------
(* publish.rs: the method wrapped by #[publish(topic = "..")] *)

\* topics of the attribute: a relative one and a full path
Topics == {<<"item_updated">>, <<"inventory", "/", "stock_changed">>}

\* the names the check for a context parameter accepts
ContextNames == {"context", "ctx"}

\* self.path() of the publishing service
ServicePath == <<"svc">>

\* topic.contains('/')
is_full_path(topic) == Contains(topic, "/")

\* the topic as it is, or format!("{}/{}", self.path(), topic)
topic_path(topic) == IF is_full_path(topic) THEN topic ELSE ServicePath \o <<"/">> \o topic

\* outcomes of context.publish(&topic_path, value)
PublishOutcomes == {[ok |-> TRUE, e |-> "-"], [ok |-> FALSE, e |-> "bus closed"]}

\* results of the wrapped body
BodyOutcomes == {MethodOk("item1"), MethodErr}

\* variant: the event is published whatever the body returned
PublishAttemptsAlways(result, tp) ==
    <<[topic_path |-> tp, value |-> IF result.ok THEN result.v ELSE result.e]>>

\* if let Ok(ref value) = result { context.publish(&topic_path, value) }
PublishAttempts(result, tp) ==
    IF result.ok THEN <<[topic_path |-> tp, value |-> result.v]>> ELSE <<>>

\* variant: a failed publish is handed to the caller
WrappedResultPropagating(result, attempts, pub) ==
    IF attempts # <<>> /\ ~pub.ok THEN [ok |-> FALSE, v |-> "-", e |-> pub.e] ELSE result

\* the last expression of the wrapper: result
WrappedResult(result, attempts, pub) == result

\* one call of the wrapped method. The wrapper names the context `context`:
\* a method whose parameter is called ctx passes the macro's check, but the
\* generated body does not compile, so no such method exists to be called
PublishWrapped(topic, ctx_name, body, pub) ==
    IF ctx_name # "context"
    THEN [op |-> "publish", compiled |-> FALSE, topic |-> topic, body |-> body, pub |-> pub,
          events |-> <<>>, published |-> <<>>, logged |-> <<>>, result |-> body]
    ELSE LET attempts == PublishAttempts(body, topic_path(topic))
             failed == attempts # <<>> /\ ~pub.ok
         IN  [op |-> "publish", compiled |-> TRUE, topic |-> topic, body |-> body,
              pub |-> pub,
              events |-> <<"body">> \o [i \in DOMAIN attempts |-> "publish"]
                           \o (IF failed THEN <<"eprintln">> ELSE <<>>) \o <<"return">>,
              published |-> attempts,
              logged |-> IF failed
                         THEN <<"Error publishing event to topic ">> \o topic_path(topic)
                              \o <<": ", pub.e>>
                         ELSE <<>>,
              result |-> WrappedResult(body, attempts, pub)]

----------------------------------------------------------------------------
(* action.rs: the attribute of #[action] and the path it registers *)

\* str::find(pat) in s[from..]: the position of the first occurrence, 0 for None
FindSub(s, pat, from) ==
    LET hits == {i \in from..(Len(s) - Len(pat) + 1) : SubSeq(s, i, i + Len(pat) - 1) = pat}
    IN  IF hits = {} THEN 0 ELSE CHOOSE i \in hits : \A j \in hits : i <= j

\* Punctuated::<Lit, Comma>::parse_terminated on the attribute and the test
\* that its first literal is a string: the string's value
FirstStrLit(attr_str) ==
    IF /\ Len(attr_str) >= 2
       /\ Quoted(attr_str)
       /\ \A i \in 2..(Len(attr_str) - 1) : attr_str[i] # "\""
    THEN Some(SubSeq(attr_str, 2, Len(attr_str) - 1))
    ELSE None

ActionAttr(panicked, name, path) ==
    [panicked |-> panicked, action_name |-> name, action_path |-> path]

\* action_macro, lines 22-62: action_name and action_path from the method
\* name and the attribute text; an unwrap of a failed find panics
action_attr(fn_name, attr_str) ==
    IF attr_str = <<>> THEN ActionAttr(FALSE, fn_name, fn_name)
    ELSE IF FindSub(attr_str, KeyText.path, 1) # 0
    THEN IF Contains(attr_str, "=") /\ Contains(attr_str, "\"")
         THEN LET start_idx == FindSub(attr_str, KeyText.path, 1) + Len(KeyText.path)
                  equals == FindSub(attr_str, <<"=">>, start_idx)
                  quote_start == FindSub(attr_str, <<"\"">>, equals + 1)
                  quote_end == FindSub(attr_str, <<"\"">>, quote_start + 1)
              IN  IF equals = 0 \/ quote_start = 0 \/ quote_end = 0
                  THEN ActionAttr(TRUE, fn_name, fn_name)
                  ELSE ActionAttr(FALSE, fn_name,
                                  SubSeq(attr_str, quote_start + 1, quote_end - 1))
         ELSE ActionAttr(FALSE, fn_name, fn_name)
    ELSE IF FirstStrLit(attr_str) # None
         THEN ActionAttr(FALSE, FirstStrLit(attr_str)[1], FirstStrLit(attr_str)[1])
         ELSE ActionAttr(FALSE, fn_name, fn_name)

\* method names, labels and paths tried
FnNames == {<<"m", "u", "l">>, <<"g", "e", "t">>}

Labels == {<<"m", "u", "l", "_", "n">>, <<"f", "i", "l", "e", "_", "p", "a", "t", "h">>}

PathValues == {<<"m", "y", "_", "d">>, <<"i", "t", "e", "m", "=", "1">>}

\* TokenStream::to_string of the attribute: nothing, "L", or path = "P"
AttrText(form, text) ==
    CASE form = "none"    -> <<>>
      [] form = "literal" -> <<"\"">> \o text \o <<"\"">>
      [] OTHER            -> KeyText.path \o <<" ", "=", " ", "\"">> \o text \o <<"\"">>

\* the expansion of #[action(..)] on fn_name, register_action_<fn> and the
\* runtime's routing of requested_path: context.register_action(action_path,
\* handler) makes the handler the target of exactly that path
ActionRegistration(fn_name, form, text, requested_path) ==
    LET a == action_attr(fn_name, AttrText(form, text)) IN
    [op |-> "register_action", fn_name |-> fn_name, form |-> form, text |-> text,
     panicked |-> a.panicked, action_name |-> a.action_name,
     action_path |-> a.action_path, requested_path |-> requested_path,
     reached |-> ~a.panicked /\ requested_path = a.action_path]

----------------------------------------------------------------------------
(* subscribe.rs: the callback that register_subscription_<fn> subscribes *)

\* parameter names of #[subscribe] methods after &self, in declaration order
EventSignatures ==
    {<<"ctx">>, <<"total", "ctx">>, <<"new_age", "event_ctx">>, <<"a", "b", "ctx">>}

\* extract_parameters: every typed parameter except self and the names that
\* are, or end with, ctx
IsContextName(ident) == ident \in {"ctx", "event_ctx"}

extract_parameters(sig) == SelectSeq(sig, LAMBDA ident : ident # "self" /\ ~IsContextName(ident))

EventPaths == {"math/added"}

EventParamTypes == {"f64", "i32", "MyData"}

\* value : Option<ArcValueType> of a delivered event
EventValues == {None} \cup {Some(x) : x \in ArcPrimitives}

\* outcomes of the user's event handler: Ok(()) or Err(e)
EventHandlerOutcomes == {[ok |-> TRUE, e |-> "-"], [ok |-> FALSE, e |-> "handler failed"]}

CallbackOk(invoked, arg) ==
    [ok |-> TRUE, invoked |-> invoked, arg |-> arg, message |-> <<>>, logged |-> <<>>]

CallbackErr(invoked, arg, message) ==
    [ok |-> FALSE, invoked |-> invoked, arg |-> arg, message |-> message, logged |-> <<>>]

\* variant: the callback of a handler without parameters returns the
\* handler's error
ZeroParamCallbackPropagating(path, outcome) ==
    IF outcome.ok THEN CallbackOk(TRUE, "-")
    ELSE CallbackErr(TRUE, "-", <<"Error in event handler for ", path, ": ", outcome.e>>)

\* the callback of a handler without parameters: the handler is called, its
\* error only logged through ctx.error
ZeroParamCallback(path, outcome) ==
    IF outcome.ok THEN CallbackOk(TRUE, "-")
    ELSE [CallbackOk(TRUE, "-") EXCEPT
            !.logged = <<"Error in event handler for ", path, ": ", outcome.e>>]

\* the callback of a handler with one parameter of type T
OneParamCallback(path, T, value, outcome) ==
    IF value = None
    THEN CallbackErr(FALSE, "-", <<"Required event value is missing for ", path>>)
    ELSE IF ~as_type(value[1], T).ok
         THEN CallbackErr(FALSE, "-",
                          <<"Failed to parse event value as ", T, ": ", ValueErr>>)
         ELSE IF outcome.ok THEN CallbackOk(TRUE, as_type(value[1], T).value)
              ELSE CallbackErr(TRUE, as_type(value[1], T).value,
                               <<"Error in event handler for ", path, ": ", outcome.e>>)

\* #[subscribe(path = "..")] on a method with the signature sig, and one
\* delivery of an event to the subscribed callback
SubscribeCallback(path, sig, T, value, outcome) ==
    LET params == extract_parameters(sig)
        r == IF Len(params) = 1 THEN OneParamCallback(path, T, value, outcome)
             ELSE ZeroParamCallback(path, outcome)
    IN  IF Len(params) > 1
        THEN [op |-> "subscribe", compiled |-> FALSE, nparams |-> Len(params),
              outcome |-> outcome, ok |-> FALSE, invoked |-> FALSE, arg |-> "-",
              message |-> <<"Subscription handlers can only have one parameter plus context">>,
              logged |-> <<>>]
        ELSE [op |-> "subscribe", compiled |-> TRUE, nparams |-> Len(params),
              outcome |-> outcome, ok |-> r.ok, invoked |-> r.invoked, arg |-> r.arg,
              message |-> r.message, logged |-> r.logged]

----------------------------------------------------------------------------
(* subscription_registry.rs: register_all_subscriptions *)

\* the SubscriptionHandler items the #[subscribe] methods of the test service
\* submit, each with the outcome of its register_fn (ok, or the error e)
SubscriptionHandlers ==
    {[method_name |-> "on_added", topic |-> "math/added"],
     [method_name |-> "on_age_changed", topic |-> "math/age_changed"],
     [method_name |-> "on_my_data_changed", topic |-> "math/my_data_changed"]}

RegisterFnOutcomes == {[ok |-> TRUE, e |-> "-"], [ok |-> FALSE, e |-> "subscribe refused"]}

SubscriptionRuns ==
    [method_name : {h.method_name : h \in SubscriptionHandlers},
     topic : {h.topic : h \in SubscriptionHandlers},
     outcome : RegisterFnOutcomes]

\* get_subscription_handlers() in iteration order, up to MaxSubs of them
SubscriptionLists ==
    UNION {[1..n -> {r \in SubscriptionRuns :
                        [method_name |-> r.method_name, topic |-> r.topic]
                            \in SubscriptionHandlers}] : n \in 0..MaxSubs}

\* the line pushed to errors for a failed register_fn
RegistrationError(handler) ==
    <<"Failed to register subscription for handler '", handler.method_name,
      "' on topic '", handler.topic, "': ", handler.outcome.e>>

RECURSIVE RegisterFromStopping(_, _, _, _)
\* variant: the first failed register_fn ends the loop
RegisterFromStopping(handlers, i, calls, errors) ==
    IF i > Len(handlers) \/ errors # <<>> THEN [calls |-> calls, errors |-> errors]
    ELSE RegisterFromStopping(handlers, i + 1, Append(calls, i),
             IF handlers[i].outcome.ok THEN errors
             ELSE Append(errors, RegistrationError(handlers[i])))

RECURSIVE RegisterFrom(_, _, _, _)
\* the for loop: every register_fn is called; a failure is collected and the
\* loop goes on
RegisterFrom(handlers, i, calls, errors) ==
    IF i > Len(handlers) THEN [calls |-> calls, errors |-> errors]
    ELSE RegisterFrom(handlers, i + 1, Append(calls, i),
             IF handlers[i].outcome.ok THEN errors
             ELSE Append(errors, RegistrationError(handlers[i])))

\* register_all_subscriptions(service, ctx): Ok(()) or the error "Failed to
\* register {count} subscription(s):" followed by the collected lines
register_all_subscriptions(handlers) ==
    LET run == RegisterFrom(handlers, 1, <<>>, <<>>) IN
    [op |-> "register_all_subscriptions", calls |-> run.calls,
     ok |-> run.errors = <<>>, count |-> Len(run.errors), lines |-> run.errors]

----------------------------------------------------------------------------
(* action.rs, lib.rs: invocations of the registered closures in flight *)

\* the invocations that may overlap
CallIds == {1, 2}

\* variant: every invocation works in one frame held by the closure
FrameShared(c) == 1

\* each invocation of the closure builds its own future, Box::pin(async move
\* { .. }), which owns params_opt, ctx and its clone of self: the frame of
\* invocation c
Frame(c) == c

NoFrame == [macro |-> "-"]

NoInflight ==
    [pc |-> [c \in CallIds |-> "idle"], input |-> [c \in CallIds |-> NoFrame],
     frame |-> [c \in CallIds |-> NoFrame], resp |-> [c \in CallIds |-> NoFrame]]

\* handlers and payloads of the overlapping invocations
ConcArcHandlers ==
    {[action_name |-> "add",
      params |-> <<[name |-> "a", ty |-> "f64"], [name |-> "b", ty |-> "f64"]>>,
      ret |-> "f64"],
     [action_name |-> "subtract", params |-> <<[name |-> "a", ty |-> "i32"]>>,
      ret |-> "i32"]}

ConcArcPayloads ==
    {None,
     Some(new_map("f64", [p \in ParamNames |-> ArcEntry("f64", "2.0")])),
     Some(new_map("f64", [p \in ParamNames |->
                             ArcEntry("f64", IF p = "a" THEN "3.5" ELSE "2.0")])),
     Some(new_map("i32", [NoArcEntries EXCEPT !["a"] = ArcEntry("i32", "7")]))}

ConcLibHandlers == {[action_name |-> "add", params |-> <<"a", "b">>]}

ConcLibPayloads ==
    {Some([k |-> "Map", v |-> "-",
           m |-> [p \in ParamNames |-> [k |-> "String", v |-> "s1"]]]),
     Some([k |-> "Map", v |-> "-",
           m |-> [p \in ParamNames |->
                     [k |-> "String", v |-> IF p = "a" THEN "s2" ELSE "s1"]]]),
     Some([k |-> "String", v |-> "s1", m |-> NoEntries])}

\* the whole handler on the contents of a frame
RunFrame(fr, outcome) ==
    IF fr.macro = "action" THEN handle_fn(fr.handler, fr.payload, outcome)
    ELSE ActionHandler(fr.handler, fr.payload, outcome)

\* the runtime (or handle_request) invokes the closure with a payload
BeginCall(c, macro, h, p) ==
    /\ phase = "run"
    /\ inflight.pc[c] = "idle"
    /\ inflight' =
         [inflight EXCEPT
            !.pc[c] = "extract",
            !.input[c] = [macro |-> macro, handler |-> h, payload |-> p,
                          called |-> FALSE, invoked_with |-> <<>>, outcome |-> MethodErr],
            !.frame[Frame(c)] = [macro |-> macro, handler |-> h, payload |-> p,
                                 args |-> <<>>, result |-> MethodErr]]
    /\ UNCHANGED <<registry, lastReg, action_registry, lastDispatch, request, lastCall,
                   lastExtract, phase, lastService, lastEvent>>

\* the parameter extractions of invocation c, on the payload in its frame; a
\* failure answers at once
ExtractStep(c) ==
    /\ inflight.pc[c] = "extract"
    /\ LET fr == inflight.frame[Frame(c)]
           run == RunFrame(fr, MethodErr)
       IN  inflight' =
             IF run.ext.ok
             THEN [inflight EXCEPT !.pc[c] = "call",
                                   !.frame[Frame(c)].args = run.ext.args]
             ELSE [inflight EXCEPT !.pc[c] = "done", !.resp[c] = run.resp]
    /\ UNCHANGED <<registry, lastReg, action_registry, lastDispatch, request, lastCall,
                   lastExtract, phase, lastService, lastEvent>>

\* the method is awaited with the arguments in the frame
CallStep(c, outcome) ==
    /\ inflight.pc[c] = "call"
    /\ LET fr == inflight.frame[Frame(c)] IN
       /\ outcome \in IF fr.macro = "action" THEN LibOutcomes ELSE ArcOutcomes(fr.handler)
       /\ inflight' =
            [inflight EXCEPT !.pc[c] = "respond",
                             !.input[c].called = TRUE,
                             !.input[c].invoked_with = fr.args,
                             !.input[c].outcome = outcome,
                             !.frame[Frame(c)].result = outcome]
    /\ UNCHANGED <<registry, lastReg, action_registry, lastDispatch, request, lastCall,
                   lastExtract, phase, lastService, lastEvent>>

\* the response is built from the method's result
RespondStep(c) ==
    /\ inflight.pc[c] = "respond"
    /\ LET fr == inflight.frame[Frame(c)] IN
       inflight' = [inflight EXCEPT !.pc[c] = "done",
                                    !.resp[c] = RunFrame(fr, fr.result).resp]
    /\ UNCHANGED <<registry, lastReg, action_registry, lastDispatch, request, lastCall,
                   lastExtract, phase, lastService, lastEvent>>

----------------------------------------------------------------------------
(* State machine *)

NoReg == [attempted |-> FALSE, via |-> "-",
          item |-> [name |-> "-", service_type_id |-> "-", handler_fn |-> "-"],
          existed |-> FALSE, result |-> "-"]

NoDispatch == [via |-> "-", owner |-> "-", op |-> "-", payload |-> None, known |-> FALSE,
               invoked |-> <<>>, ok |-> TRUE, status |-> "-", message |-> <<>>,
               data |-> None]

NoRequest == [to |-> "-"]

NoCall == [macro |-> "-"]

NoExtract == [fn |-> "-"]

NoService == [op |-> "-"]

NoEvent == [op |-> "-"]

\* the state after construction: nothing submitted, and each service
\* instance as new() builds it, with an empty action_registry
Init ==
    /\ registry = <<>>
    /\ lastReg = NoReg
    /\ action_registry = [t \in TypeIds |-> <<>>]
    /\ lastDispatch = NoDispatch
    /\ request = NoRequest
    /\ lastCall = NoCall
    /\ lastExtract = NoExtract
    /\ phase = "load"
    /\ lastService = NoService
    /\ lastEvent = NoEvent
    /\ inflight = NoInflight

\* inventory::submit! of one ActionItem: the item joins the collection, at a
\* position of the iteration order that the link order decides; the
\* submission has no failure path. The submissions are static constructors:
\* they run while the program is loaded, before main
Register(item, pos) ==
    /\ phase = "load"
    /\ Len(registry) < MaxItems
    /\ pos \in 1..(Len(registry) + 1)
    /\ registry' = InsertAt(registry, pos, item)
    /\ lastReg' = [attempted |-> TRUE, via |-> "submit", item |-> item,
                   existed |-> \E i \in DOMAIN registry : Key(registry[i]) = Key(item),
                   result |-> "Ok"]
    /\ UNCHANGED <<action_registry, lastDispatch, request, lastCall, lastExtract, phase,
                   lastService, lastEvent, inflight>>

\* every static constructor has run and main begins: from here on the
\* inventory is only iterated
Main ==
    /\ phase = "load"
    /\ phase' = "run"
    /\ UNCHANGED <<registry, lastReg, action_registry, lastDispatch, request, lastCall,
                   lastExtract, lastService, lastEvent, inflight>>

\* outcomes of the opaque handler_fn of an ActionItem
HandlerFnOutcomes == {[ok |-> TRUE, e |-> "-"], [ok |-> FALSE, e |-> "handler failed"]}

\* dispatch_request(service, context, operation, params)
DispatchRequest(owner, operation, outcome) ==
    /\ phase = "run"
    /\ lastDispatch' =
         LET handler == find_action_handler(operation)
             known == \E i \in DOMAIN registry : Key(registry[i]) = <<owner, operation>>
         IN
         IF handler = <<>>
         THEN [via |-> "dispatch_request", owner |-> owner, op |-> operation,
               payload |-> None, known |-> known, invoked |-> <<>>, ok |-> FALSE,
               status |-> "-", message |-> <<"Unknown operation: ", operation>>,
               data |-> None]
         ELSE IF outcome.ok
         THEN [via |-> "dispatch_request", owner |-> owner, op |-> operation,
               payload |-> None, known |-> known, invoked |-> handler, ok |-> TRUE,
               status |-> "handler response", message |-> <<>>, data |-> None]
         ELSE [via |-> "dispatch_request", owner |-> owner, op |-> operation,
               payload |-> None, known |-> known, invoked |-> handler, ok |-> FALSE,
               status |-> "-",
               message |-> <<"Error handling operation '", operation, "': ", outcome.e>>,
               data |-> None]
    /\ UNCHANGED <<registry, lastReg, action_registry, request, lastCall, lastExtract, phase,
                   lastService, lastEvent, inflight>>

\* payloads and method outcomes tried against handle_request
HandleRequestData == {None, Some([k |-> "String", v |-> "s1", m |-> NoEntries]),
                      Some([k |-> "Map", v |-> "-", m |-> NoEntries]),
                      Some([k |-> "Map", v |-> "-",
                            m |-> [p \in ParamNames |-> [k |-> "Number", v |-> "7"]]])}

HandleRequestOutcomes == {MethodOk("s1"), MethodErr}

\* the handle_request generated by #[service] in lib.rs, on the instance of
\* service type owner
HandleRequest(owner, action, data, outcome) ==
    /\ phase = "run"
    /\ lastDispatch' =
         LET reg == action_registry[owner] IN
         IF action \in DOMAIN reg
         THEN LET run == handle_fn(reg[action], data, outcome) IN
              [via |-> "handle_request", owner |-> owner, op |-> action, payload |-> data,
               known |-> TRUE, invoked |-> <<reg[action]>>, ok |-> TRUE,
               status |-> run.resp.status, message |-> run.resp.message[1],
               data |-> run.resp.data]
         ELSE [via |-> "handle_request", owner |-> owner, op |-> action, payload |-> data,
               known |-> FALSE, invoked |-> <<>>, ok |-> TRUE, status |-> "Error",
               message |-> <<"Unknown action: ", action>>, data |-> None]
    /\ UNCHANGED <<registry, lastReg, action_registry, request, lastCall, lastExtract, phase,
                   lastService, lastEvent, inflight>>

\* the #[action] methods that the impl block of each service type declares
DeclaredActions(owner) ==
    IF owner = "Calc"
    THEN {[action_name |-> n, params |-> <<"a", "b">>] : n \in OpNames}
    ELSE {}

\* register_<fn>_action(&self) of the instance of service type owner: builds
\* and returns a fresh one-entry map; the instance's action_registry is not
\* touched
RegisterFnAction(owner, h) ==
    /\ phase = "run"
    /\ h \in DeclaredActions(owner)
    /\ lastReg' = [attempted |-> TRUE, via |-> "register_fn_action",
                   item |-> [name |-> h.action_name, service_type_id |-> owner,
                             handler_fn |-> "handle_fn"],
                   existed |-> h.action_name \in DOMAIN action_registry[owner],
                   result |-> "Ok"]
    /\ UNCHANGED <<registry, action_registry, lastDispatch, request, lastCall, lastExtract,
                   phase, lastService, lastEvent, inflight>>

Next ==
    \/ \E item \in ActionItem, pos \in 1..MaxItems : Register(item, pos)
    \/ Main
    \/ \E owner \in TypeIds : \E h \in DeclaredActions(owner) : RegisterFnAction(owner, h)
    \/ \E owner \in TypeIds, op \in OpNames, o \in HandlerFnOutcomes :
          DispatchRequest(owner, op, o)
    \/ \E owner \in TypeIds, op \in OpNames, data \in HandleRequestData,
          o \in HandleRequestOutcomes : HandleRequest(owner, op, data, o)

Spec == Init /\ [][Next]_vars

----------------------------------------------------------------------------
(* The generated handlers and the extraction functions, applied to inputs *)

LibRequests == {[to |-> "action", handler |-> h, payload |-> d]
                : h \in LibHandlers, d \in RequestData}

ActionRequests == {[to |-> "action_macro", handler |-> h, payload |-> p]
                   : h \in ActionHandlers, p \in ParamsOpt}

ExtractParamRequests ==
    {[to |-> "extract_param", params |-> v, name |-> n, T |-> T]
     : v \in ValueTypes,
       n \in ParamNames, T \in ExtractTargets}

InitRequests ==
    {r \in [to : {"init"}, items : ImplBlocks, failAt : 0..(MaxMethods + 1)] :
        r.failAt <= Len(collect_action_methods(r.items)) + 1}

VmapRequests ==
    {[to |-> "vmap_extract", value |-> v, key |-> key, T |-> T]
     : v \in {None} \cup {Some(x) : x \in NumValues}, key \in ParamNames, T \in DefaultTypes}

ServiceRequests ==
    [to : {"service"}, flavor : {"lib", "service_macro"}, struct_name : StructNames,
     decl : ServiceDecls]

PublishRequests == [to : {"publish"}, topic : Topics, ctx_name : ContextNames]

RegisterAllRequests == [to : {"register_all_subscriptions"}, handlers : SubscriptionLists]

ActionAttrRequests ==
    [to : {"register_action"}, fn_name : FnNames, form : {"none"}, text : {<<>>}]
        \cup [to : {"register_action"}, fn_name : FnNames, form : {"literal"}, text : Labels]
        \cup [to : {"register_action"}, fn_name : FnNames, form : {"path"}, text : PathValues]

SubscribeRequests ==
    [to : {"subscribe"}, path : EventPaths, sig : EventSignatures, T : EventParamTypes,
     value : EventValues]

ExtractParameterRequests ==
    [to : {"extract_parameter"}, flavor : {"utils", "registry"}, params : ValueTypes,
     name : ParamNames, T : ParameterTargets, error_msg : ErrorMsgs]

InitHandler ==
    /\ registry = <<>>
    /\ lastReg = NoReg
    /\ action_registry = [t \in TypeIds |-> <<>>]
    /\ lastDispatch = NoDispatch
    /\ \/ request \in LibRequests
       \/ request \in ActionRequests
       \/ request \in ExtractParamRequests
       \/ request \in InitRequests
       \/ request \in VmapRequests
       \/ request \in ServiceRequests
       \/ request \in PublishRequests
       \/ request \in ExtractParameterRequests
       \/ request \in RegisterAllRequests
       \/ request \in SubscribeRequests
       \/ request \in ActionAttrRequests
    /\ lastCall = NoCall
    /\ lastExtract = NoExtract
    /\ phase = "run"
    /\ lastService = NoService
    /\ lastEvent = NoEvent
    /\ inflight = NoInflight

\* the closure returned by register_<fn>_action runs handle_<fn> on the request
InvokeLibHandler(outcome) ==
    /\ request.to = "action"
    /\ lastCall.macro = "-"
    /\ lastCall' = handle_fn(request.handler, request.payload, outcome)
    /\ UNCHANGED <<registry, lastReg, action_registry, lastDispatch, request, lastExtract,
                   phase, lastService, lastEvent, inflight>>

\* the runtime runs the closure that register_action_<fn> registered
InvokeActionHandler(outcome) ==
    /\ request.to = "action_macro"
    /\ lastCall.macro = "-"
    /\ outcome \in ArcOutcomes(request.handler)
    /\ lastCall' = ActionHandler(request.handler, request.payload, outcome)
    /\ UNCHANGED <<registry, lastReg, action_registry, lastDispatch, request, lastExtract,
                   phase, lastService, lastEvent, inflight>>

CallExtractParam ==
    /\ request.to = "extract_param"
    /\ lastExtract.fn = "-"
    /\ lastExtract' = extract_param(request.params, request.name, request.T)
    /\ UNCHANGED <<registry, lastReg, action_registry, lastDispatch, request, lastCall,
                   phase, lastService, lastEvent, inflight>>

\* generated code calls extract_parameter on the caller's payload
CallExtractParameter ==
    /\ request.to = "extract_parameter"
    /\ lastExtract.fn = "-"
    /\ lastExtract' =
         IF request.flavor = "utils"
         THEN utils_extract_parameter(request.params, request.name, request.T,
                                      request.error_msg)
         ELSE extract_parameter(request.params, request.name, request.T,
                                request.error_msg)
    /\ UNCHANGED <<registry, lastReg, action_registry, lastDispatch, request, lastCall,
                   phase, lastService, lastEvent, inflight>>

\* the service's init registers the collected subscriptions
CallRegisterAllSubscriptions ==
    /\ request.to = "register_all_subscriptions"
    /\ lastEvent.op = "-"
    /\ lastEvent' = register_all_subscriptions(request.handlers)
    /\ UNCHANGED <<registry, lastReg, action_registry, lastDispatch, request, lastCall,
                   lastExtract, phase, lastService, inflight>>

\* the runtime delivers an event to the subscribed callback
DeliverEvent(outcome) ==
    /\ request.to = "subscribe"
    /\ lastEvent.op = "-"
    /\ lastEvent' = SubscribeCallback(request.path, request.sig, request.T, request.value,
                                      outcome)
    /\ UNCHANGED <<registry, lastReg, action_registry, lastDispatch, request, lastCall,
                   lastExtract, phase, lastService, inflight>>

\* the method's action is registered and a request for a path is routed
RegisterActionPath(requested_path) ==
    /\ request.to = "register_action"
    /\ lastService.op = "-"
    /\ lastService' = ActionRegistration(request.fn_name, request.form, request.text,
                                         requested_path)
    /\ UNCHANGED <<registry, lastReg, action_registry, lastDispatch, request, lastCall,
                   lastExtract, phase, lastEvent, inflight>>

\* the runtime calls init on the service
CallInit ==
    /\ request.to = "init"
    /\ lastService.op = "-"
    /\ lastService' = ServiceInit(request.items, request.failAt)
    /\ UNCHANGED <<registry, lastReg, action_registry, lastDispatch, request, lastCall,
                   lastExtract, phase, lastEvent, inflight>>

\* the compiler expands the #[service] attribute on the struct
ExpandService ==
    /\ request.to = "service"
    /\ lastService.op = "-"
    /\ lastService' = IF request.flavor = "lib"
                      THEN LibService(request.struct_name, request.decl)
                      ELSE MacroService(request.struct_name, request.decl)
    /\ UNCHANGED <<registry, lastReg, action_registry, lastDispatch, request, lastCall,
                   lastExtract, phase, lastEvent, inflight>>

CallVmapExtract ==
    /\ request.to = "vmap_extract"
    /\ lastExtract.fn = "-"
    /\ lastExtract' = vmap_extract(request.value, request.key, request.T)
    /\ UNCHANGED <<registry, lastReg, action_registry, lastDispatch, request, lastCall,
                   phase, lastService, lastEvent, inflight>>

\* a caller awaits the wrapped method
CallPublished(body, pub) ==
    /\ request.to = "publish"
    /\ lastEvent.op = "-"
    /\ lastEvent' = PublishWrapped(request.topic, request.ctx_name, body, pub)
    /\ UNCHANGED <<registry, lastReg, action_registry, lastDispatch, request, lastCall,
                   lastExtract, phase, lastService, inflight>>

NextHandler ==
    \/ \E o \in LibOutcomes : InvokeLibHandler(o)
    \/ \E t \in RetTypes : \E o \in ArcOutcomes([ret |-> t]) : InvokeActionHandler(o)
    \/ CallExtractParam
    \/ CallExtractParameter
    \/ CallRegisterAllSubscriptions
    \/ \E q \in FnNames \cup Labels \cup PathValues : RegisterActionPath(q)
    \/ \E outcome \in EventHandlerOutcomes : DeliverEvent(outcome)
    \/ CallInit
    \/ CallVmapExtract
    \/ ExpandService
    \/ \E body \in BodyOutcomes, pub \in PublishOutcomes : CallPublished(body, pub)

SpecHandler == InitHandler /\ [][NextHandler]_vars

\* overlapping invocations of the registered closures
InitConcurrent ==
    /\ registry = <<>>
    /\ lastReg = NoReg
    /\ action_registry = [t \in TypeIds |-> <<>>]
    /\ lastDispatch = NoDispatch
    /\ request = NoRequest
    /\ lastCall = NoCall
    /\ lastExtract = NoExtract
    /\ phase = "run"
    /\ lastService = NoService
    /\ lastEvent = NoEvent
    /\ inflight = NoInflight

NextConcurrent ==
    \/ \E c \in CallIds, h \in ConcArcHandlers, p \in ConcArcPayloads :
          BeginCall(c, "action_macro", h, p)
    \/ \E c \in CallIds, h \in ConcLibHandlers, p \in ConcLibPayloads :
          BeginCall(c, "action", h, p)
    \/ \E c \in CallIds : ExtractStep(c)
    \/ \E c \in CallIds : \E o \in LibOutcomes \cup ArcOutcomes([ret |-> "f64"])
                                   \cup ArcOutcomes([ret |-> "i32"]) : CallStep(c, o)
    \/ \E c \in CallIds : RespondStep(c)

SpecConcurrent == InitConcurrent /\ [][NextConcurrent]_vars

----------------------------------------------------------------------------
(* Observations on a completed handler run *)

HandlerRan == lastCall.macro # "-"

\* the declared parameter names, in order
DeclNames(c) ==
    IF c.macro = "action" THEN c.handler.params
    ELSE [i \in DOMAIN c.handler.params |-> c.handler.params[i].name]

PayloadIsMap(c) == c.payload # None /\ c.payload[1].k \in {"Map", "map"}

\* the response is an error response / a success response
RespIsError(c) ==
    IF c.macro = "action" THEN c.resp.status = "Error" ELSE c.resp.status \in {400, 500}

RespIsSuccess(c) ==
    IF c.macro = "action" THEN c.resp.status = "Success" ELSE c.resp.status = 200

\* the response of a failed extraction: an error status, no data, one message
RespIsExtractionError(c) ==
    IF c.macro = "action"
    THEN c.resp.status = "Error" /\ c.resp.data = None /\ Len(c.resp.message) = 1
    ELSE c.resp.status = 400 /\ c.resp.data = None /\ Len(c.resp.error) = 1

\* the message / error text of the response, as an Option
RespText(c) == IF c.macro = "action" THEN c.resp.message ELSE c.resp.error

\* the value under key name has the type the i-th parameter declares
EntryHasDeclaredType(c, i) ==
    LET entry == c.payload[1].m[DeclNames(c)[i]] IN
    IF c.macro = "action" THEN entry.k = "String" ELSE entry.t = c.handler.params[i].ty

\* the i-th parameter, taken alone, can be extracted from the map payload
ParamExtractable(c, i) ==
    /\ HasKey(c.payload[1].m, DeclNames(c)[i])
    /\ IF c.macro = "action"
       THEN c.payload[1].m[DeclNames(c)[i]].k = "String"
       ELSE ArcExtractOne(c.payload[1], c.handler.params[i].name, c.handler.params[i].ty).ok

MissingIdx(c) == {i \in DOMAIN DeclNames(c) : ~HasKey(c.payload[1].m, DeclNames(c)[i])}

FailingIdx(c) == {i \in DOMAIN DeclNames(c) : ~ParamExtractable(c, i)}

Min(S) == CHOOSE x \in S : \A y \in S : x <= y

----------------------------------------------------------------------------
(* Properties *)

\* C1: registering a handler under a key (owner type, operation name) that is
\* already registered fails with a duplicate-key error, and the registry
\* never holds two entries under one key.
C1_DuplicateKeyRejected ==
    /\ (lastReg.attempted /\ lastReg.existed) => lastReg.result = "DuplicateKey"
    /\ \A i, j \in DOMAIN registry : Key(registry[i]) = Key(registry[j]) => i = j

\* C2: a dispatch of operation n on an instance of owner type B never invokes
\* a handler that was registered for another owner type.
C2_LookupKeyedByOwnerType ==
    \A i \in DOMAIN lastDispatch.invoked :
        lastDispatch.via = "dispatch_request"
            => lastDispatch.invoked[i].service_type_id = lastDispatch.owner

\* C3: dispatching an operation that was never registered for the owner type
\* returns, as a normal response value, a response with status Error whose
\* message contains the operation name.
C3_UnknownOperationIsErrorResponse ==
    (lastDispatch.via # "-" /\ ~lastDispatch.known) =>
        /\ lastDispatch.ok
        /\ lastDispatch.status = "Error"
        /\ Contains(lastDispatch.message, lastDispatch.op)

\* C4: the target method is invoked exactly once when parameter extraction
\* succeeds and not at all when it fails (an error response is returned
\* instead); it is never invoked a second time.
C4_MethodInvokedOnceOrNever ==
    HandlerRan =>
        /\ lastCall.ext.ok => lastCall.calls = 1
        /\ ~lastCall.ext.ok =>
              lastCall.calls = 0 /\ RespIsError(lastCall) /\ lastCall.returned = "Ok"

C4_Witness ==
    /\ lastCall.macro = "action_macro"
    /\ lastCall.ext.ok
    /\ ~lastCall.outcome.ok
    /\ lastCall.calls = 1
    /\ lastCall.resp.status = 500

\* C5: when the payload is a Map that holds, with the declared type, the key
\* of at least one declared parameter and lacks the key of another, the
\* response is an error that names exactly the first missing key and no other
\* declared parameter, whatever the declared types.
C5_MissingKeyNamed ==
    (HandlerRan /\ PayloadIsMap(lastCall) /\ MissingIdx(lastCall) # {}
        /\ MissingIdx(lastCall) # DOMAIN DeclNames(lastCall)
        /\ \A i \in DOMAIN DeclNames(lastCall) \ MissingIdx(lastCall) :
              EntryHasDeclaredType(lastCall, i)) =>
        LET p == DeclNames(lastCall)[Min(MissingIdx(lastCall))] IN
        /\ RespIsExtractionError(lastCall)
        /\ lastCall.calls = 0
        /\ Contains(RespText(lastCall)[1], p)
        /\ \A q \in Range(DeclNames(lastCall)) \ {p} : ~Contains(RespText(lastCall)[1], q)

\* C6: extraction from a Map payload from which some declared parameter can
\* be extracted and another cannot examines the parameters in order and stops
\* at the first that fails: one error, naming that parameter, no later
\* parameter examined, and the method not invoked.
C6_StopsAtFirstFailureAndNamesIt ==
    (HandlerRan /\ PayloadIsMap(lastCall) /\ FailingIdx(lastCall) # {}
        /\ FailingIdx(lastCall) # DOMAIN DeclNames(lastCall)) =>
        LET f == Min(FailingIdx(lastCall)) IN
        /\ ~lastCall.ext.ok
        /\ lastCall.ext.examined = f
        /\ Len(lastCall.ext.args) = f - 1
        /\ lastCall.calls = 0
        /\ RespIsExtractionError(lastCall)
        /\ Contains(RespText(lastCall)[1], DeclNames(lastCall)[f])

C8_SingleParamShapeAgnostic ==
    (HandlerRan /\ Len(DeclNames(lastCall)) = 1 /\ lastCall.payload # None) =>
        LET x == DeclNames(lastCall)[1]
            pv == lastCall.payload[1]
            T == IF lastCall.macro = "action" THEN "String" ELSE lastCall.handler.params[1].ty
            bare == IF lastCall.macro = "action" THEN pv.k = "String"
                    ELSE pv.k \in {"prim", "struct"} /\ pv.t = T
            oneEntry == /\ pv.k \in {"Map", "map"}
                        /\ Keys(pv.m) = {x}
                        /\ IF lastCall.macro = "action" THEN pv.m[x].k = "String"
                           ELSE /\ pv.m[x].t = T
                                /\ pv.t = IF IsPrimitive(T) THEN T ELSE "ArcValueType"
        IN  /\ bare => (lastCall.ext.ok /\ lastCall.ext.args = <<pv.v>> /\ lastCall.calls = 1)
            /\ oneEntry =>
                  (lastCall.ext.ok /\ lastCall.ext.args = <<pv.m[x].v>> /\ lastCall.calls = 1)

\* C9: a handler with no declared parameters, given an absent payload, Null
\* or an empty Map, invokes the method once and returns its result, and never
\* looks a key up in the payload.
C9_ZeroParamsIgnorePayload ==
    (HandlerRan /\ Len(DeclNames(lastCall)) = 0
        /\ \/ lastCall.payload = None
           \/ lastCall.payload[1].k \in {"Null", "null"}
           \/ (PayloadIsMap(lastCall) /\ Keys(lastCall.payload[1].m) = {})) =>
        /\ lastCall.ext.ok
        /\ lastCall.ext.lookups = 0
        /\ lastCall.calls = 1
        /\ lastCall.outcome.ok =>
              (RespIsSuccess(lastCall) /\ lastCall.resp.data # None
                  /\ lastCall.resp.data[1].v = lastCall.outcome.v)
        /\ ~lastCall.outcome.ok =>
              (RespIsError(lastCall) /\ lastCall.resp.data = None
                  /\ Contains(RespText(lastCall)[1], lastCall.outcome.e))

C9_Witness ==
    /\ lastCall.macro = "action_macro"
    /\ lastCall.handler.params = <<>>
    /\ lastCall.payload = None
    /\ lastCall.calls = 1
    /\ lastCall.resp.status = 200

\* C10 as stated: when the method returns Ok(value) the response has status
\* Success, data = Some(value) and no message or error text.
C10_OkWithoutAnyText ==
    (HandlerRan /\ lastCall.ext.ok /\ lastCall.outcome.ok) =>
        /\ RespIsSuccess(lastCall)
        /\ lastCall.resp.data # None
        /\ lastCall.resp.data[1].v = lastCall.outcome.v
        /\ RespText(lastCall) = None

\* C10 as amended: when the method returns Ok(value) the response has status
\* Success and data = Some(value) carrying exactly the method's value, and no
\* error text: the action_macro response has error = None, and the response of
\* the lib.rs handler has the message "Operation <name> executed successfully".
C10_OkNormalized ==
    (HandlerRan /\ lastCall.ext.ok /\ lastCall.outcome.ok) =>
        /\ RespIsSuccess(lastCall)
        /\ lastCall.resp.data # None
        /\ lastCall.resp.data[1].v = lastCall.outcome.v
        /\ IF lastCall.macro = "action"
           THEN /\ lastCall.resp.data[1].k = "String"
                /\ lastCall.resp.message =
                      Some(<<"Operation ", lastCall.handler.action_name,
                             " executed successfully">>)
           ELSE /\ lastCall.resp.data[1].t = lastCall.handler.ret
                /\ lastCall.resp.error = None

C10_Witness ==
    /\ lastCall.macro = "action"
    /\ lastCall.ext.ok
    /\ lastCall.outcome.ok
    /\ lastCall.resp.status = "Success"
    /\ lastCall.resp.data # None

\* C11: when extraction succeeds and the target method returns Err(e), the
\* handler returns a response (never an error result of the call) with an
\* error status, no data, and a text that contains the rendering of e.
C11_MethodErrIsErrorResponse ==
    (HandlerRan /\ lastCall.ext.ok /\ ~lastCall.outcome.ok) =>
        /\ lastCall.returned = "Ok"
        /\ RespIsError(lastCall)
        /\ lastCall.resp.data = None
        /\ RespText(lastCall) # None
        /\ Contains(RespText(lastCall)[1], lastCall.outcome.e)

C11_Witness ==
    /\ lastCall.macro = "action_macro"
    /\ lastCall.handler.params # <<>>
    /\ lastCall.outcome = MethodErr
    /\ lastCall.returned = "Ok"
    /\ lastCall.resp = [status |-> 500, data |-> None,
                        error |-> Some(<<"Division by zero">>)]

\* the payload is a Map that supplies a Number under every declared parameter
SuppliesNumbers(data, params) ==
    /\ data # None
    /\ data[1].k = "Map"
    /\ \A i \in DOMAIN params :
          HasKey(data[1].m, params[i]) /\ data[1].m[params[i]].k = "Number"

\* C12: on a freshly constructed instance of a service that declares #[action]
\* methods, handle_request with a declared action's name and a Map supplying
\* every declared numeric parameter routes to that method: the answer is
\* Success with numeric data (or, if the method itself fails, its error).
C12_DeclaredActionRoutedToMethod ==
    \A h \in DeclaredActions(lastDispatch.owner) :
        (/\ lastDispatch.via = "handle_request"
         /\ lastDispatch.op = h.action_name
         /\ SuppliesNumbers(lastDispatch.payload, h.params)) =>
            /\ lastDispatch.invoked = <<h>>
            /\ lastDispatch.status = "Success" =>
                  lastDispatch.data # None /\ lastDispatch.data[1].k = "Number"
            /\ lastDispatch.status # "Success" =>
                  Contains(lastDispatch.message, "Error executing operation ")

\* a request has been answered, so initialisation lies behind
Dispatched == lastDispatch.via # "-"

\* C13: the registry goes one way from Open to Sealed; once requests are
\* being answered the set of entries never changes again, and an attempt to
\* register is a fatal error, neither accepted nor silently ignored.
C13_SealedRegistryRejectsRegistration ==
    [][Dispatched =>
          /\ registry' = registry
          /\ action_registry' = action_registry
          /\ lastReg' # lastReg => lastReg'.result = "Fatal"]_vars

\* C14: a dispatch attempted while the registration of the service's declared
\* actions has not completed is rejected as a loud failure; it is not
\* answered with an ordinary unknown-operation response.
C14_DispatchBeforeRegistrationRejected ==
    \A h \in DeclaredActions(lastDispatch.owner) :
        (/\ lastDispatch.via = "handle_request"
         /\ lastDispatch.op = h.action_name
         /\ h.action_name \notin DOMAIN action_registry[lastDispatch.owner]) =>
            ~(/\ lastDispatch.ok
              /\ lastDispatch.status = "Error"
              /\ lastDispatch.message = <<"Unknown action: ", lastDispatch.op>>)

\* the number of registrations that init completed for the method ident
TimesRegistered(s, ident) ==
    Cardinality({j \in DOMAIN s.registered : s.registered[j].ident = ident})

IsMarked(item) == item.isFn /\ item.attrs # {}

\* C15: when init returns Ok, every method marked #[action] or #[subscribe]
\* has been registered exactly once, none skipped and none twice, and no
\* other item has been registered.
C15_InitRegistersEachMethodOnce ==
    (lastService.op = "init" /\ lastService.result = "Ok") =>
        \A i \in DOMAIN lastService.items :
            TimesRegistered(lastService, i) = IF IsMarked(lastService.items[i]) THEN 1 ELSE 0

C15_Witness ==
    /\ lastService.op = "init"
    /\ lastService.result = "Ok"
    /\ \E i, j, k \in DOMAIN lastService.items :
          /\ lastService.items[i].attrs = {"action", "subscribe"}
          /\ lastService.items[j].attrs = {"subscribe"}
          /\ ~IsMarked(lastService.items[k])
    /\ Len(lastService.registered) = 2

IntegerCompatible(n) == ~n.nan /\ n.frac = 0

\* the number lies within the range of the integer type T
InRange(n, T) ==
    /\ ~n.nan
    /\ IF T = "i32"
       THEN IF n.neg THEN ~MagLess(I32MinMag, n.mag) ELSE ~MagLess(I32MaxMag, n.mag)
       ELSE IF n.neg THEN ~MagLess(I64MinMag, n.mag) ELSE ~MagLess(I64MaxMag, n.mag)

\* C17: converting a Number to Int32 or Int64 succeeds only when the number
\* is integer-compatible and within the range of the target, and then yields
\* the number itself; an out-of-range number is answered with an Overflow
\* error, never with a truncated, wrapped or saturated value.
C17_IntConversionChecked ==
    (/\ lastExtract.fn = "vmap_extract"
     /\ lastExtract.found # None
     /\ lastExtract.T \in {"i32", "i64"}) =>
        LET n == lastExtract.found[1] IN
        IF IntegerCompatible(n) /\ InRange(n, lastExtract.T)
        THEN lastExtract.ok /\ lastExtract.value = n
        ELSE /\ ~lastExtract.ok
             /\ (~n.nan /\ ~InRange(n, lastExtract.T)) => lastExtract.error = "Overflow"

ServiceExpanded == lastService.op = "service"

\* C18: for a service declared with explicit name, path, description and
\* version, the four accessors return exactly the declared texts, whatever
\* characters they contain, ',' and '=' included.
C18_DeclaredMetadataReturned ==
    (/\ ServiceExpanded
     /\ \A i \in DOMAIN AttrKeys : lastService.decl[AttrKeys[i]] # None) =>
        /\ ~lastService.panicked
        /\ lastService.name = lastService.decl.name[1]
        /\ lastService.path = lastService.decl.path[1]
        /\ lastService.description = lastService.decl.description[1]
        /\ lastService.version = lastService.decl.version[1]

\* C19: a service declared without attributes has name() the snake_case of
\* its struct name, path() equal to that name, description()
\* "Service <StructName>" and version() "0.1.0"; declared with a name only,
\* its path() is that name.
C19_MetadataDefaults ==
    /\ (/\ ServiceExpanded
        /\ \A i \in DOMAIN AttrKeys : lastService.decl[AttrKeys[i]] = None) =>
           /\ lastService.name = to_snake_case(lastService.struct_name)
           /\ lastService.path = lastService.name
           /\ lastService.description = <<"Service ">> \o lastService.struct_name
           /\ lastService.version = <<"0.1.0">>
    /\ (/\ ServiceExpanded
        /\ lastService.decl.name # None
        /\ lastService.decl.path = None) =>
           lastService.path = lastService.decl.name[1]

\* C20: when the declared path starts with '/', path() returns it without
\* that leading '/'.
C20_LeadingSlashStripped ==
    (/\ ServiceExpanded
     /\ lastService.decl.path # None
     /\ lastService.decl.path[1][1] = "/") =>
        lastService.path = Tail(lastService.decl.path[1])

\* a call of a #[publish] method that exists has completed
PublishedCall == lastEvent.op = "publish" /\ lastEvent.compiled

\* C21: a method wrapped by #[publish] publishes only after its body has
\* completed and only if the body returned Ok: after Err nothing is
\* published, after Ok exactly one publish is attempted, with the returned
\* value.
C21_PublishAfterOkOnly ==
    PublishedCall =>
        /\ lastEvent.events[1] = "body"
        /\ IF lastEvent.body.ok
           THEN /\ Len(lastEvent.published) = 1
                /\ lastEvent.published[1].value = lastEvent.body.v
                /\ Cardinality({i \in DOMAIN lastEvent.events :
                                   lastEvent.events[i] = "publish"}) = 1
           ELSE /\ lastEvent.published = <<>>
                /\ ~Contains(lastEvent.events, "publish")

C21_Witness ==
    /\ PublishedCall
    /\ lastEvent.body = MethodOk("item1")
    /\ lastEvent.events = <<"body", "publish", "return">>
    /\ lastEvent.published = <<[topic_path |-> <<"svc", "/", "item_updated">>,
                                value |-> "item1"]>>

Alone(c) == RunFrame(inflight.input[c], inflight.input[c].outcome)

ParameterExtracted ==
    lastExtract.fn \in {"utils::extract_parameter", "registry::extract_parameter"}

OnlyKey(params, name) ==
    [params EXCEPT !.m = [NoEntries EXCEPT ![name] = params.m[name]]]

\* C30: when params is a map holding the key, registry::extract_parameter
\* decides by parsing that key's value alone (the value, or an error naming
\* the parameter, never a conversion of the whole payload); only when params
\* is not a map or lacks the key is the whole payload converted, and then a
\* failure carries exactly the caller's error_msg.
C30_KeyedValueDecidesExtraction ==
    lastExtract.fn = "registry::extract_parameter" =>
        IF request.params.k = "Map" /\ HasKey(request.params.m, request.name)
        THEN /\ lastExtract.ok = try_from_ok(request.params.m[request.name], request.T)
             /\ lastExtract.ok => lastExtract.value = AsValue(request.params.m[request.name])
             /\ ~lastExtract.ok =>
                   /\ Contains(lastExtract.message, request.name)
                   /\ lastExtract.message # request.error_msg
             /\ extract_parameter(OnlyKey(request.params, request.name), request.name,
                                  request.T, request.error_msg).ok = lastExtract.ok
        ELSE /\ lastExtract.ok = try_from_ok(request.params, request.T)
             /\ lastExtract.ok => lastExtract.value = request.params
             /\ ~lastExtract.ok => lastExtract.message = request.error_msg

\* a map that would itself convert to T holds the key with a value that does not
C30_Witness ==
    /\ lastExtract.fn = "registry::extract_parameter"
    /\ request.params.k = "Map"
    /\ HasKey(request.params.m, request.name)
    /\ request.T = "Map"
    /\ ~lastExtract.ok
    /\ Contains(lastExtract.message, "Failed to parse parameter '")

\* the orders in which the inventory may iterate the same submissions
Reorderings(handlers) ==
    {[i \in DOMAIN handlers |-> handlers[f[i]]] :
        f \in {g \in [DOMAIN handlers -> DOMAIN handlers] :
                  \A i, j \in DOMAIN handlers : g[i] = g[j] => i = j}}

\* find_action_handler over a given iteration order
FindIn(handlers, operation_name) ==
    LET matching == {i \in DOMAIN handlers : handlers[i].name = operation_name} IN
    IF matching = {} THEN <<>>
    ELSE <<handlers[CHOOSE i \in matching : \A j \in matching : i <= j]>>

\* C25: for every permutation of the same registrations, the lookup of every
\* (owner type, operation name) resolves to the same handler.
C25_LookupIndependentOfOrder ==
    \A t \in Reorderings(get_action_handlers), owner \in TypeIds, op \in OpNames :
        FindIn(t, op) = find_action_handler(op)

Failed(handlers) == {i \in DOMAIN handlers : ~handlers[i].outcome.ok}

\* C26: register_all_subscriptions calls every collected register_fn exactly
\* once, going on after a failure; it returns Ok exactly when none failed,
\* and otherwise one error whose count is the number of failures and which
\* lists the method name and topic of each handler that failed.
C26_AllSubscriptionsAttempted ==
    lastEvent.op = "register_all_subscriptions" =>
        LET handlers == request.handlers IN
        /\ lastEvent.calls = [i \in 1..Len(handlers) |-> i]
        /\ lastEvent.ok <=> Failed(handlers) = {}
        /\ ~lastEvent.ok =>
              /\ lastEvent.count = Cardinality(Failed(handlers))
              /\ Len(lastEvent.lines) = lastEvent.count
              /\ \A i \in Failed(handlers) :
                    \E k \in DOMAIN lastEvent.lines :
                        /\ Contains(lastEvent.lines[k], handlers[i].method_name)
                        /\ Contains(lastEvent.lines[k], handlers[i].topic)

\* a failure in the middle, a success after it, a second failure at the end
C26_Witness ==
    /\ lastEvent.op = "register_all_subscriptions"
    /\ Len(request.handlers) = 3
    /\ Failed(request.handlers) = {1, 3}
    /\ request.handlers[1].method_name # request.handlers[3].method_name
    /\ lastEvent.calls = <<1, 2, 3>>
    /\ lastEvent.count = 2

EventDelivered == lastEvent.op = "subscribe" /\ lastEvent.compiled

\* C28: the callback of a handler without parameters returns Ok whenever the
\* handler returns, also when it returns Err (which is only logged); the
\* callback of a handler with one parameter returns Err without invoking the
\* handler when the event value is absent or does not convert to the type.
C28_SubscribeCallbackResults ==
    EventDelivered =>
        /\ lastEvent.nparams = 0 =>
              /\ lastEvent.invoked
              /\ lastEvent.ok
              /\ ~lastEvent.outcome.ok => Contains(lastEvent.logged, lastEvent.outcome.e)
        /\ (/\ lastEvent.nparams = 1
            /\ \/ request.value = None
               \/ ~as_type_ok(request.value[1], request.T)) =>
              ~lastEvent.ok /\ ~lastEvent.invoked

C28_Witness ==
    /\ EventDelivered
    /\ lastEvent.nparams = 0
    /\ ~lastEvent.outcome.ok
    /\ lastEvent.ok
    /\ lastEvent.logged # <<>>

\* the path the claim expects the method to be registered under
DeclaredPath == IF request.form = "none" THEN request.fn_name ELSE request.text

\* C27: #[action("L")] registers the handler under L (action name and path
\* both L), #[action] under the method's own name, #[action(path = "P")]
\* under P; a request to that path reaches the method.
C27_ActionRegisteredUnderDeclaredPath ==
    lastService.op = "register_action" =>
        /\ ~lastService.panicked
        /\ lastService.action_path = DeclaredPath
        /\ request.form = "literal" => lastService.action_name = request.text
        /\ lastService.requested_path = DeclaredPath => lastService.reached

ArcHandlerRan == lastCall.macro = "action_macro"

\* the method was called and returned Ok / Err
MethodReturnedOk == lastCall.calls = 1 /\ lastCall.outcome.ok

MethodReturnedErr == lastCall.calls = 1 /\ ~lastCall.outcome.ok

\* status, data and error of the three kinds of response, but for the
\* condition of status 400
WellFormedButFor400 ==
    /\ lastCall.resp.status \in {200, 400, 500}
    /\ lastCall.resp.status = 200 <=> MethodReturnedOk
    /\ lastCall.resp.status = 200 =>
          lastCall.resp.data # None /\ lastCall.resp.error = None
    /\ lastCall.resp.status = 500 <=> MethodReturnedErr
    /\ lastCall.resp.status \in {400, 500} =>
          lastCall.resp.data = None /\ lastCall.resp.error # None

\* C29: every response of an action_macro handler is well-formed: status is
\* 200, 400 or 500; 200 exactly when the method returned Ok, with data and
\* without error; 400 exactly when the payload was missing or extraction
\* failed; 500 exactly when the method returned Err; 400 and 500 without
\* data and with error.
C29_ResponseWellFormed ==
    ArcHandlerRan =>
        /\ WellFormedButFor400
        /\ lastCall.resp.status = 400 <=> (lastCall.payload = None \/ ~lastCall.ext.ok)

\* C29, amended: as above, with status 400 exactly when extraction failed, a
\* missing payload being a failure only for a method that declares
\* parameters.
C29_ResponseWellFormedAmended ==
    ArcHandlerRan =>
        /\ WellFormedButFor400
        /\ lastCall.resp.status = 400 <=> ~lastCall.ext.ok
        /\ lastCall.payload = None =>
              (~lastCall.ext.ok <=> lastCall.handler.params # <<>>)

\* a method without parameters answers a missing payload with its result
C29_Witness ==
    /\ ArcHandlerRan
    /\ lastCall.payload = None
    /\ lastCall.handler.params = <<>>
    /\ MethodReturnedOk
    /\ lastCall.resp.status = 200
    /\ lastCall.resp.data # None

====
